---- MODULE Spec2Model ----
(***************************************************************************)
(* CoinLookout: the market-data gateway (services/coin-gecko.ts), the      *)
(* /api/cryptos route, and the CryptoTable refresh-and-reconcile           *)
(* controller (components/crypto-table.tsx) with its favorites store       *)
(* (hooks/use-local-storage).                                              *)
(*                                                                         *)
(* Strings are sequences of character codes (ASCII), so that               *)
(* toLowerCase, includes and localeCompare are computed, not assumed.      *)
(* Raw upstream JSON values are tagged records; normalized records hold    *)
(* plain integers and strings.                                             *)
(***************************************************************************)
EXTENDS Integers, Sequences, FiniteSets, Bags, TLC

(***************************************************************************)
(* Bounds of the model.                                                    *)
(***************************************************************************)
\* fetches that may be in flight at once (the code puts no limit on them)
MaxInflight == 2
\* raw items in one upstream payload of the gateway specification
MaxItems == 2

(***************************************************************************)
(* JavaScript values of the upstream payload.                              *)
(***************************************************************************)
Null == [t |-> "null"]
Undef == [t |-> "undefined"]
Num(n) == [t |-> "number", n |-> n]
Str(s) == [t |-> "string", s |-> s]
Arr(a) == [t |-> "array", a |-> a]
Obj(p) == [t |-> "object", price |-> p]

\* v is null or undefined: what ?? and ?. test
Nullish(v) == v.t \in {"null", "undefined"}

\* JavaScript truthiness of a value (filter on id/symbol/name, image || '')
Truthy(v) ==
    CASE v.t = "string" -> v.s # <<>>
      [] v.t = "number" -> v.n # 0
      [] v.t \in {"null", "undefined"} -> FALSE
      [] OTHER -> TRUE

\* Array.prototype.filter
RECURSIVE SelectSeqBy(_, _)
SelectSeqBy(s, keep) ==
    IF s = <<>> THEN <<>>
    ELSE IF Head(s) \in keep THEN <<Head(s)>> \o SelectSeqBy(Tail(s), keep)
    ELSE SelectSeqBy(Tail(s), keep)

Range(s) == {s[i] : i \in 1..Len(s)}

(***************************************************************************)
(* Market data gateway: fetchCryptoData / getCryptoCurrencies.             *)
(***************************************************************************)
Return(v) == [threw |-> FALSE, value |-> v]
Throw == [threw |-> TRUE, value |-> <<>>]

\* coin.x ?? 0 on a field typed number | null
NumOrZero(v) == IF Nullish(v) THEN 0 ELSE v.n

\* coin.image || ''
ImageOrEmpty(v) == IF Truthy(v) THEN v.s ELSE <<>>

\* coin.sparkline_in_7d?.price?.filter(p => typeof p === 'number') ?? []
MapSparklinePrefix(v) ==
    IF Nullish(v) THEN <<>>
    ELSE IF Nullish(v.price) THEN <<>>
    ELSE LET isNumber(i) == v.price.a[i].t = "number"
             n == Cardinality({i \in 1..Len(v.price.a) : \A j \in 1..i : isNumber(j)})
         IN  [i \in 1..n |-> v.price.a[i].n]
MapSparkline(v) ==
    IF Nullish(v) THEN <<>>
    ELSE IF Nullish(v.price) THEN <<>>
    ELSE LET kept == SelectSeqBy(v.price.a, {p \in Range(v.price.a) : p.t = "number"})
         IN  [i \in 1..Len(kept) |-> kept[i].n]

\* .filter(coin => coin.id && coin.symbol && coin.name)
HasIdentityNotNullish(coin) ==
    ~Nullish(coin.id) /\ ~Nullish(coin.symbol) /\ ~Nullish(coin.name)
HasIdentity(coin) == Truthy(coin.id) /\ Truthy(coin.symbol) /\ Truthy(coin.name)

\* .map((coin) => ({...}))
MapCoinVolumeFromCap(coin) ==
    [id |-> coin.id.s,
     symbol |-> coin.symbol.s,
     name |-> coin.name.s,
     image |-> ImageOrEmpty(coin.image),
     currentPrice |-> NumOrZero(coin.current_price),
     priceChange24h |-> NumOrZero(coin.price_change_percentage_24h),
     marketCap |-> NumOrZero(coin.market_cap),
     volume24h |-> NumOrZero(coin.market_cap),
     circulatingSupply |-> NumOrZero(coin.circulating_supply),
     sparkline |-> MapSparkline(coin.sparkline_in_7d)]
MapCoin(coin) ==
    [id |-> coin.id.s,
     symbol |-> coin.symbol.s,
     name |-> coin.name.s,
     image |-> ImageOrEmpty(coin.image),
     currentPrice |-> NumOrZero(coin.current_price),
     priceChange24h |-> NumOrZero(coin.price_change_percentage_24h),
     marketCap |-> NumOrZero(coin.market_cap),
     volume24h |-> NumOrZero(coin.total_volume),
     circulatingSupply |-> NumOrZero(coin.circulating_supply),
     sparkline |-> MapSparkline(coin.sparkline_in_7d)]

NormalizeItems(items) ==
    LET kept == SelectSeqBy(items, {c \in Range(items) : HasIdentity(c)})
    IN  [i \in 1..Len(kept) |-> MapCoin(kept[i])]

\* the catch block: log and return an empty array
OnCaughtError == Return(<<>>)

\* if (!response.ok) { ...log...; return []; }   (the throw is commented out)
OnHttpErrorThrows(u) == Throw
OnHttpError(u) == Return(<<>>)

\* What the upstream answers: u.kind is "networkError" (fetch rejects),
\* "status" (a response with ok false), "badJson" (response.json() rejects),
\* or "json" with u.json the parsed body.
ProcessBody(u) ==
    IF u.json.t # "array" THEN OnCaughtError          \* data.filter is not a function
    ELSE IF \E c \in Range(u.json.a) : Nullish(c)
         THEN OnCaughtError                           \* coin.id of null
    ELSE Return(NormalizeItems(u.json.a))

fetchCryptoData(u) ==
    CASE u.kind = "networkError" -> OnCaughtError
      [] u.kind = "status" -> OnHttpError(u)
      [] u.kind = "badJson" -> OnCaughtError
      [] OTHER -> ProcessBody(u)

getCryptoCurrencies(u) == fetchCryptoData(u)

(***************************************************************************)
(* The earlier revision of the gateway kept in the repository: it maps     *)
(* without filtering, keeps nullable fields, and throws inside its try     *)
(* block on a response that is not ok.                                     *)
(***************************************************************************)
OrElse(v, d) == IF Truthy(v) THEN v ELSE d

MapCoinLegacy(coin) ==
    [id |-> coin.id,
     symbol |-> coin.symbol,
     name |-> coin.name,
     image |-> coin.image,
     currentPrice |-> coin.current_price,
     priceChange24h |-> OrElse(coin.price_change_percentage_24h, Num(0)),
     marketCap |-> coin.market_cap,
     volume24h |-> coin.total_volume,
     circulatingSupply |-> coin.circulating_supply,
     sparkline |-> IF Nullish(coin.sparkline_in_7d) THEN Arr(<<>>)
                   ELSE OrElse(coin.sparkline_in_7d.price, Arr(<<>>))]

\* catch (error) { console.error(...); return []; }
OnCaughtErrorLegacy == Return(<<>>)

fetchCryptoDataLegacy(u) ==
    CASE u.kind = "networkError" -> OnCaughtErrorLegacy
      [] u.kind = "status" -> OnCaughtErrorLegacy      \* throw new Error(...) in the try
      [] u.kind = "badJson" -> OnCaughtErrorLegacy
      [] u.json.t # "array" -> OnCaughtErrorLegacy      \* data.map is not a function
      [] \E c \in Range(u.json.a) : Nullish(c) -> OnCaughtErrorLegacy
      [] OTHER -> Return([i \in 1..Len(u.json.a) |-> MapCoinLegacy(u.json.a[i])])

getCryptoCurrenciesLegacy(u) == fetchCryptoDataLegacy(u)

(***************************************************************************)
(* Route handler GET /api/cryptos.                                         *)
(***************************************************************************)
\* GET with the gateway's result r: 200 with the array, 500 if the call raised
GETOfEmptyIsError(r) ==
    IF r.threw
    THEN [kind |-> "response", ok |-> FALSE, status |-> 500, body |-> "message",
          message |-> "Failed to fetch cryptocurrency data.", data |-> <<>>]
    ELSE IF r.value = <<>>
    THEN [kind |-> "response", ok |-> FALSE, status |-> 503, body |-> "message",
          message |-> "Could not retrieve data from upstream API.", data |-> <<>>]
    ELSE [kind |-> "response", ok |-> TRUE, status |-> 200, body |-> "data",
          message |-> "", data |-> r.value]
GETOf(r) ==
    IF r.threw
    THEN [kind |-> "response", ok |-> FALSE, status |-> 500, body |-> "message",
          message |-> "Failed to fetch cryptocurrency data.", data |-> <<>>]
    ELSE [kind |-> "response", ok |-> TRUE, status |-> 200, body |-> "data",
          message |-> "", data |-> r.value]

GET(u) == GETOf(getCryptoCurrencies(u))

(***************************************************************************)
(* Strings: toLowerCase, includes, localeCompare.                          *)
(***************************************************************************)
IsUpper(c) == c \in 65..90
LowerChar(c) == IF IsUpper(c) THEN c + 32 ELSE c
ToLowerCase(s) == [i \in 1..Len(s) |-> LowerChar(s[i])]

\* String.prototype.includes
Includes(s, sub) ==
    \E i \in 0..(Len(s) - Len(sub)) : SubSeq(s, i + 1, i + Len(sub)) = sub

\* lexicographic comparison of two code sequences: -1, 0 or 1
RECURSIVE LexCompare(_, _)
LexCompare(s, t) ==
    IF s = <<>> /\ t = <<>> THEN 0
    ELSE IF s = <<>> THEN -1
    ELSE IF t = <<>> THEN 1
    ELSE IF Head(s) < Head(t) THEN -1
    ELSE IF Head(s) > Head(t) THEN 1
    ELSE LexCompare(Tail(s), Tail(t))

\* a.localeCompare(b) on ASCII letters: letters first compared without case,
\* then, for equal letters, lower case before upper case
LocaleCompare(a, b) ==
    LET primary == LexCompare(ToLowerCase(a), ToLowerCase(b))
    IN  IF primary # 0 THEN primary ELSE -LexCompare(a, b)

(***************************************************************************)
(* View derivation of CryptoTable: sortedCryptos and the search filter.    *)
(***************************************************************************)
NumericKeys == {"currentPrice", "priceChange24h", "marketCap", "volume24h",
                "circulatingSupply"}
StringKeys == {"name"}
\* the keys the column headers pass to requestSort
SortKeys == NumericKeys \cup StringKeys
NoKey == "null"

\* the comparator of the first sort (sortConfig.key !== null)
CompareAscendingOnly(a, b, cfg) ==
    IF cfg.key \in NumericKeys
    THEN IF a[cfg.key] < b[cfg.key] THEN -1
         ELSE IF a[cfg.key] > b[cfg.key] THEN 1
         ELSE 0
    ELSE LocaleCompare(a[cfg.key], b[cfg.key])
CompareByConfig(a, b, cfg) ==
    IF cfg.key \in NumericKeys
    THEN IF a[cfg.key] < b[cfg.key]
         THEN (IF cfg.direction = "ascending" THEN -1 ELSE 1)
         ELSE IF a[cfg.key] > b[cfg.key]
         THEN (IF cfg.direction = "ascending" THEN 1 ELSE -1)
         ELSE 0
    ELSE LET comparison == LocaleCompare(a[cfg.key], b[cfg.key])
         IN  IF cfg.direction = "ascending" THEN comparison ELSE -comparison

\* the comparator of the second sort: favorites float to the top
CompareByFavoriteReversed(a, b, favs) ==
    LET aIsFavorite == a.id \in Range(favs)
        bIsFavorite == b.id \in Range(favs)
    IN  IF aIsFavorite /\ ~bIsFavorite THEN 1
        ELSE IF ~aIsFavorite /\ bIsFavorite THEN -1
        ELSE 0
CompareByFavorite(a, b, favs) ==
    LET aIsFavorite == a.id \in Range(favs)
        bIsFavorite == b.id \in Range(favs)
    IN  IF aIsFavorite /\ ~bIsFavorite THEN -1
        ELSE IF ~aIsFavorite /\ bIsFavorite THEN 1
        ELSE 0

\* by is [kind |-> "config", cfg |-> sortConfig] or [kind |-> "favorite", favs |-> favorites]
Compare(a, b, by) ==
    IF by.kind = "config" THEN CompareByConfig(a, b, by.cfg)
    ELSE CompareByFavorite(a, b, by.favs)

\* Array.prototype.sort is stable: x goes behind every element not greater than it
RECURSIVE InsertSorted(_, _, _)
InsertSorted(acc, x, by) ==
    IF acc = <<>> THEN <<x>>
    ELSE IF Compare(acc[Len(acc)], x, by) <= 0 THEN Append(acc, x)
    ELSE Append(InsertSorted(SubSeq(acc, 1, Len(acc) - 1), x, by), acc[Len(acc)])

RECURSIVE StableSort(_, _)
StableSort(s, by) ==
    IF s = <<>> THEN <<>>
    ELSE InsertSorted(StableSort(SubSeq(s, 1, Len(s) - 1), by), s[Len(s)], by)

\* useMemo(() => {...}, [cryptos, sortConfig, favorites])
sortedCryptosByReversal(list, cfg, favs) ==
    LET ascending ==
            StableSort(list, [kind |-> "config",
                              cfg |-> [key |-> cfg.key, direction |-> "ascending"]])
        sortableItems ==
            IF cfg.key = NoKey THEN list
            ELSE IF cfg.direction = "ascending" THEN ascending
            ELSE [i \in 1..Len(ascending) |-> ascending[Len(ascending) + 1 - i]]
    IN  StableSort(sortableItems, [kind |-> "favorite", favs |-> favs])
sortedCryptos(list, cfg, favs) ==
    LET sortableItems ==
            IF cfg.key # NoKey THEN StableSort(list, [kind |-> "config", cfg |-> cfg])
            ELSE list
    IN  StableSort(sortableItems, [kind |-> "favorite", favs |-> favs])

\* the filter of the search effect
MatchesSearchRawTerm(crypto, term) ==
    \/ Includes(ToLowerCase(crypto.name), term)
    \/ Includes(ToLowerCase(crypto.symbol), term)
MatchesSearch(crypto, term) ==
    \/ Includes(ToLowerCase(crypto.name), ToLowerCase(term))
    \/ Includes(ToLowerCase(crypto.symbol), ToLowerCase(term))

FilterBySearch(sorted, term) ==
    SelectSeqBy(sorted, {c \in Range(sorted) : MatchesSearch(c, term)})

\* what the filter effect stores in filteredCryptos
DerivedView(list, cfg, favs, term) == FilterBySearch(sortedCryptos(list, cfg, favs), term)

(***************************************************************************)
(* The favorites store: useLocalStorage over window.localStorage.          *)
(* The stored item is absent, a JSON text that parses to a value, or a     *)
(* text that does not parse.                                               *)
(***************************************************************************)
NoItem == [present |-> FALSE, valid |-> FALSE, value |-> <<>>]
BadItem == [present |-> TRUE, valid |-> FALSE, value |-> <<>>]
\* JSON.stringify(newValue)
Stringify(v) == [present |-> TRUE, valid |-> TRUE, value |-> v]
\* JSON.parse(item)
Parse(item) == IF item.valid THEN Return(item.value) ELSE Throw

\* readValue: item ? JSON.parse(item) : initialValue, initialValue on a throw
readValue(item, initialValue) ==
    IF ~item.present THEN initialValue
    ELSE IF Parse(item).threw THEN initialValue
    ELSE Parse(item).value

\* the updater toggleFavorite hands to setFavorites
ToggleInKeepsOnlyId(prevFavorites, id) ==
    IF id \in Range(prevFavorites)
    THEN SelectSeqBy(prevFavorites, {id})
    ELSE Append(prevFavorites, id)
ToggleIn(prevFavorites, id) ==
    IF id \in Range(prevFavorites)
    THEN SelectSeqBy(prevFavorites, Range(prevFavorites) \ {id})
    ELSE Append(prevFavorites, id)

(***************************************************************************)
(* useLocalStorage as a hook with several consumers in one document: each  *)
(* consumer holds storedValue for its key; localStorage is either not      *)
(* available (every access throws) or holds a limited amount (setItem      *)
(* throws when the quota would be exceeded).                               *)
(***************************************************************************)
\* the key of the favorites, and a key some other consumer uses
FavoritesKey == "favorites"
OtherKey == "other"
StoreKeys == {FavoritesKey, OtherKey}

\* consumers 1 (CryptoTable) and 2 use the favorites key, consumer 3 the other
Consumers == {1, 2, 3}
KeyOf(c) == IF c = 3 THEN OtherKey ELSE FavoritesKey
InitialValueOf(c) == <<>>

\* the room an item takes, counted in ids (a text that does not parse: one)
SizeOf(item) ==
    IF ~item.present THEN 0
    ELSE IF ~item.valid THEN 1
    ELSE Len(item.value)
TotalSize(items) == SizeOf(items[FavoritesKey]) + SizeOf(items[OtherKey])

\* window.localStorage.getItem(key)
GetItem(mode, item) == IF mode.available THEN Return(item) ELSE Throw

\* the catch block of readValue: warn and return initialValue
OnReadErrorRethrows(initialValue) == Throw
OnReadError(initialValue) == Return(initialValue)

\* readValue with its try/catch: what it returns, or that it raised
readValueIn(mode, item, initialValue) ==
    IF GetItem(mode, item).threw THEN OnReadError(initialValue)
    ELSE IF ~item.present THEN Return(initialValue)
    ELSE IF Parse(item).threw THEN OnReadError(initialValue)
    ELSE Return(Parse(item).value)

\* window.localStorage.setItem(key, JSON.stringify(newValue))
SetItem(mode, items, key, newValue) ==
    LET after == [items EXCEPT ![key] = Stringify(newValue)]
    IN  IF ~mode.available THEN [threw |-> TRUE, items |-> items]
        ELSE IF TotalSize(after) > mode.cap THEN [threw |-> TRUE, items |-> items]
        ELSE [threw |-> FALSE, items |-> after]

\* the Event('local-storage') setValue dispatches carries no key
NoEventKey == ""

\* handleStorageChange of consumer d, whose storedValue is current
handleStorageChangeIgnores(eventKey, d, mode, items, current) == current
handleStorageChange(eventKey, d, mode, items, current) ==
    IF eventKey # NoEventKey /\ eventKey # KeyOf(d) THEN current
    ELSE readValueIn(mode, items[KeyOf(d)], InitialValueOf(d)).value

\* window.dispatchEvent(new Event('local-storage')): every hook's listener runs
DispatchLocalStorage(mode, items, values) ==
    [d \in Consumers |-> handleStorageChange(NoEventKey, d, mode, items, values[d])]

\* the catch block of setValue: warn, nothing else
OnWriteErrorUpdatesMemory(items, values, c, newValue) ==
    [threw |-> FALSE, stored |-> FALSE, items |-> items,
     values |-> [values EXCEPT ![c] = newValue], notified |-> {}]
OnWriteError(items, values, c, newValue) ==
    [threw |-> FALSE, stored |-> FALSE, items |-> items, values |-> values,
     notified |-> {}]

\* setValue of consumer c called with the updater of toggleFavorite(id);
\* values[c] is the storedValue of the render that created setValue
setValue(mode, items, values, storedValue, c, id) ==
    LET newValue == ToggleIn(storedValue, id)
        set == SetItem(mode, items, KeyOf(c), newValue)
    IN  IF set.threw THEN OnWriteError(items, values, c, newValue)
        ELSE [threw |-> FALSE, stored |-> TRUE, items |-> set.items,
              values |-> DispatchLocalStorage(mode, set.items,
                                              [values EXCEPT ![c] = newValue]),
              notified |-> Consumers]

(***************************************************************************)
(* State of the CryptoTable controller.                                    *)
(***************************************************************************)
VARIABLES
    cryptos,          \* the authoritative asset list
    filteredCryptos,  \* the list handed to the table rows
    isLoading,        \* the loading flag
    searchTerm,       \* the search input
    favorites,        \* storedValue of useLocalStorage(FAVORITES_LOCAL_STORAGE_KEY)
    sortConfig,       \* [key, direction]
    error,            \* <<>> for null, <<message>> otherwise
    storage,          \* the localStorage item under the favorites key
    phase,            \* "rendered" (before the effects ran), "mounted", "unmounted"
    effDeps,          \* [cryptos.length, isLoading] of the fetchData the polling effect last ran with
    timers,           \* armed intervals, each the closure of the fetchData it calls
    inflight,         \* bag of the closures of the fetchData calls awaiting fetch()
    last,             \* the step taken last: [op, closure, kind, data]
    gwInput,          \* gateway specification: the upstream answer handed to the gateway
    gwResult,         \* gateway specification: what getCryptoCurrencies did with it
    gwLegacy,         \* gateway specification: what the earlier revision did with it
    gwResponse,       \* gateway specification: what GET /api/cryptos answered
    lsMode,           \* store specification: [available, cap] of localStorage
    lsItems,          \* store specification: the item stored under each key
    lsValue,          \* store specification: storedValue of each consumer
    lsLast,           \* store specification: the call made last and its outcome
    lsPrev,           \* store specification: the call made before that
    lsClosure         \* store specification: storedValue in each consumer's last render

ctlVars == <<cryptos, filteredCryptos, isLoading, searchTerm, favorites, sortConfig,
             error, storage, phase, effDeps, timers, inflight, last>>
gwVars == <<gwInput, gwResult, gwLegacy, gwResponse>>
lsVars == <<lsMode, lsItems, lsValue, lsLast, lsPrev, lsClosure>>
vars == <<cryptos, filteredCryptos, isLoading, searchTerm, favorites, sortConfig,
          error, storage, phase, effDeps, timers, inflight, last, gwInput, gwResult,
          gwLegacy, gwResponse, lsMode, lsItems, lsValue, lsLast, lsPrev, lsClosure>>

NoError == <<>>
Err(m) == <<m>>
NoClosure == [len |-> -1, loading |-> FALSE]
Closure(n, l) == [len |-> n, loading |-> l]
\* the dependencies of useCallback: [cryptos.length, isLoading]
CurDeps == Closure(Len(cryptos), isLoading)
\* data is what the response of a completed fetch parsed to
Step(op, c, kind) == [op |-> op, closure |-> c, kind |-> kind, data |-> <<>>]

\* no call of the hook was made yet
NoStoreStep ==
    [op |-> "none", c |-> 0, id |-> <<>>, threw |-> FALSE, stored |-> FALSE,
     notified |-> {}, before |-> <<>>]

\* the store specification at rest (the other specifications leave it there)
StoreAtRest ==
    /\ lsMode = [available |-> TRUE, cap |-> 0]
    /\ lsItems = [k \in StoreKeys |-> NoItem]
    /\ lsValue = [c \in Consumers |-> InitialValueOf(c)]
    /\ lsLast = NoStoreStep
    /\ lsPrev = NoStoreStep
    /\ lsClosure = lsValue

(***************************************************************************)
(* Sample data: three assets with ASCII ids, symbols and names.            *)
(***************************************************************************)
RawCoin(id, symbol, name, price, change, cap, vol, supply, spark) ==
    [t |-> "object", id |-> id, symbol |-> symbol, name |-> name, image |-> Null,
     current_price |-> price, price_change_percentage_24h |-> change,
     market_cap |-> cap, total_volume |-> vol, circulating_supply |-> supply,
     sparkline_in_7d |-> spark]

\* "btc", "eth", "ADA"
IdBtc == <<98, 116, 99>>
IdEth == <<101, 116, 104>>
IdAda == <<97, 100, 97>>
\* "Bitcoin", "ether", "Cardano"
NameBtc == <<66, 105, 116, 99, 111, 105, 110>>
NameEth == <<101, 116, 104, 101, 114>>
NameAda == <<67, 97, 114, 100, 97, 110, 111>>

BtcOld == RawCoin(Str(IdBtc), Str(IdBtc), Str(NameBtc), Num(50), Num(-2), Num(900), Num(30),
                  Num(19), Obj(Arr(<<Num(1), Num(2), Null, Num(4)>>)))
EthOld == RawCoin(Str(IdEth), Str(IdEth), Str(NameEth), Num(3), Num(1), Num(400), Num(30),
                  Null, Null)
BtcNew == RawCoin(Str(IdBtc), Str(IdBtc), Str(NameBtc), Num(60), Num(5), Num(950), Num(20),
                  Num(19), Obj(Null))
EthNew == RawCoin(Str(IdEth), Str(IdEth), Str(NameEth), Null, Num(1), Num(950), Num(25),
                  Num(120), Undef)
Ada == RawCoin(Str(IdAda), Str(<<65, 68, 65>>), Str(NameAda), Num(1), Null, Null, Num(5),
               Num(35), Obj(Arr(<<>>)))
Anonymous == RawCoin(Undef, Str(IdAda), Str(NameAda), Num(1), Num(1), Num(1), Num(1),
                     Num(1), Null)

Json(items) == [kind |-> "json", json |-> Arr(items)]
\* what the upstream may answer to one poll of the controller specification
PollUpstreams ==
    {Json(<<BtcOld, EthOld>>), Json(<<EthNew, Anonymous>>), Json(<<>>), Json(<<Anonymous>>),
     [kind |-> "networkError"], [kind |-> "status"], [kind |-> "badJson"],
     [kind |-> "json", json |-> Obj(Null)]}

\* What await fetch('/api/cryptos') gives the controller: the route's answer,
\* a 502 of a proxy with no JSON body, or a rejected fetch.
ClientOutcomes ==
    {GET(u) : u \in PollUpstreams}
    \cup {[kind |-> "response", ok |-> FALSE, status |-> 502, body |-> "none",
           message |-> "", data |-> <<>>],
          [kind |-> "reject", ok |-> FALSE, status |-> 0, body |-> "none",
           message |-> "Failed to fetch", data |-> <<>>]}

(***************************************************************************)
(* fetchData, split at its await.                                          *)
(***************************************************************************)
\* line 48: if (cryptos.length === 0 && !isLoading) setIsLoading(true)
LoadingAtStart(c, loading) == IF c.len = 0 /\ ~c.loading THEN TRUE ELSE loading

\* lines 56-66: the message of the Error thrown for a response that is not ok
StatusText(status) == IF status = 500 THEN "Error: 500 Internal Server Error"
                      ELSE "Error: 502 Bad Gateway"
ErrorMessageOf(resp) ==
    IF resp.kind = "reject" THEN resp.message
    ELSE IF resp.body = "message" /\ resp.message # "" THEN resp.message
    ELSE StatusText(resp.status)

\* does the try block end in the catch block
Fails(resp) == resp.kind = "reject" \/ ~resp.ok

\* lines 70-80: the list after a response that parsed to data
KeepsOnlyResponse(prevCryptos, data) == data
MergesResponse(prevCryptos, data) ==
    IF Len(data) > 0
    THEN data \o SelectSeqBy(prevCryptos,
                             {p \in Range(prevCryptos) : \A d \in Range(data) : d.id # p.id})
    ELSE prevCryptos
ReconcileCryptos(prevCryptos, data) == IF Len(data) > 0 THEN data ELSE prevCryptos

\* lines 75-77: the error after a response with no records; c is the closure
ErrorOnEmpty(c, err) ==
    IF c.len = 0 THEN Err("No cryptocurrency data available at the moment.") ELSE err

\* lines 86-88: the error after a failure
ErrorOnFailureAlways(c, err, resp) == Err(ErrorMessageOf(resp))
ErrorOnFailure(c, err, resp) == IF c.len = 0 THEN Err(ErrorMessageOf(resp)) ELSE err

\* line 92, the finally block
LoadingAtEndKeeps(loading) == loading
LoadingAtEnd(loading) == FALSE

KindOf(resp) == IF Fails(resp) THEN "fail" ELSE IF Len(resp.data) > 0 THEN "data" ELSE "empty"

\* line 219: error && cryptos.length === 0 && !isLoading
BannerIgnoresList == error # NoError /\ ~isLoading
BannerVisible == error # NoError /\ Len(cryptos) = 0 /\ ~isLoading

\* line 268 and 291: the rows of filteredCryptos are on screen
RowsVisible == ~(isLoading /\ Len(cryptos) = 0) /\ Len(filteredCryptos) > 0

\* does a render leave effects to run: fetchData changed, or the filter inputs did
PollingStale == effDeps # CurDeps
FilterStale == filteredCryptos # DerivedView(cryptos, sortConfig, favorites, searchTerm)
EffectsPending == phase = "mounted" /\ (PollingStale \/ FilterStale)
\* the controller is mounted and waits for an event
Idle == phase = "mounted" /\ ~EffectsPending

\* clearInterval(intervalId) of the effect that ran with closure c
ClearIntervalNever(ts, c) == ts
RECURSIVE ClearInterval(_, _)
ClearInterval(ts, c) ==
    IF ts = <<>> THEN <<>>
    ELSE IF Head(ts) = c THEN Tail(ts)
    ELSE <<Head(ts)>> \o ClearInterval(Tail(ts), c)
\* setInterval(fetchData, REFRESH_INTERVAL_MS)
SetInterval(ts, c) == Append(ts, c)

InflightCount == BagCardinality(inflight)

(***************************************************************************)
(* Actions of the controller.                                              *)
(***************************************************************************)
\* the body of the polling effect (lines 98-99) run with the fetchData of closure c
RunPollingEffect(c) ==
    /\ isLoading' = LoadingAtStart(c, isLoading)
    /\ error' = NoError
    /\ inflight' = inflight (+) SetToBag({c})
    /\ timers' = SetInterval(ClearInterval(timers, effDeps), c)
    /\ effDeps' = c

\* the effects of the first render: the polling effect and the filter effect
Mount ==
    /\ phase = "rendered"
    /\ phase' = "mounted"
    /\ RunPollingEffect(CurDeps)
    /\ favorites' = readValue(storage, <<>>)
    /\ filteredCryptos' = DerivedView(cryptos, sortConfig, favorites, searchTerm)
    /\ last' = Step("mount", NoClosure, "none")
    /\ UNCHANGED <<cryptos, searchTerm, sortConfig, storage, gwVars, lsVars>>

\* the effects of a later render, run before the next event is handled
FlushEffects ==
    /\ EffectsPending
    /\ IF PollingStale
       THEN RunPollingEffect(CurDeps)
       ELSE UNCHANGED <<isLoading, error, inflight, timers, effDeps>>
    /\ filteredCryptos' = DerivedView(cryptos, sortConfig, favorites, searchTerm)
    /\ last' = Step("effects", NoClosure, IF PollingStale THEN "refetch" ELSE "none")
    /\ UNCHANGED <<cryptos, searchTerm, favorites, sortConfig, storage, phase, gwVars, lsVars>>

\* a tick of an armed interval calls the fetchData the interval was armed with
Tick ==
    /\ Idle
    /\ InflightCount < MaxInflight
    /\ \E i \in 1..Len(timers) :
          /\ isLoading' = LoadingAtStart(timers[i], isLoading)
          /\ error' = NoError
          /\ inflight' = inflight (+) SetToBag({timers[i]})
          /\ last' = Step("tick", timers[i], "none")
    /\ UNCHANGED <<cryptos, filteredCryptos, searchTerm, favorites, sortConfig, storage,
                   phase, effDeps, timers, gwVars, lsVars>>

\* the rest of fetchData (lines 56-93) once fetch() settled with resp; c is the
\* closure of the call. Nothing in it asks whether the component is still mounted.
Settle(c, resp) ==
    /\ cryptos' = IF Fails(resp) THEN cryptos ELSE ReconcileCryptos(cryptos, resp.data)
    /\ error' = IF Fails(resp) THEN ErrorOnFailure(c, error, resp)
                ELSE IF Len(resp.data) > 0 THEN error
                ELSE ErrorOnEmpty(c, error)
    /\ isLoading' = LoadingAtEnd(isLoading)
    /\ inflight' = inflight (-) SetToBag({c})
    /\ last' = [Step("complete", c, KindOf(resp)) EXCEPT
                    !.data = IF Fails(resp) THEN <<>> ELSE resp.data]

\* A failed or empty completion with no list re-runs the polling effect twice
\* (isLoading goes false, then true): it needs room for one more fetch.
HasRoom(resp) ==
    \/ phase # "mounted"
    \/ Len(cryptos) > 0
    \/ KindOf(resp) = "data"
    \/ InflightCount < MaxInflight

Complete ==
    /\ phase # "rendered"
    /\ ~EffectsPending
    /\ \E c \in BagToSet(inflight), resp \in ClientOutcomes :
          /\ HasRoom(resp)
          /\ Settle(c, resp)
    /\ UNCHANGED <<filteredCryptos, searchTerm, favorites, sortConfig, storage, phase,
                   effDeps, timers, gwVars, lsVars>>

\* the cleanup of the polling effect on unmount
Unmount ==
    /\ phase = "mounted"
    /\ phase' = "unmounted"
    /\ timers' = ClearInterval(timers, effDeps)
    /\ last' = Step("unmount", NoClosure, "none")
    /\ UNCHANGED <<cryptos, filteredCryptos, isLoading, searchTerm, favorites, sortConfig,
                   error, storage, effDeps, inflight, gwVars, lsVars>>

(***************************************************************************)
(* User events.                                                            *)
(***************************************************************************)
\* what the user types into the search box: "", "ET"
SearchTerms == {<<>>, <<69, 84>>}

handleSearchChange ==
    /\ Idle
    /\ \E term \in SearchTerms :
          /\ term # searchTerm
          /\ searchTerm' = term
    /\ last' = Step("search", NoClosure, "none")
    /\ UNCHANGED <<cryptos, filteredCryptos, isLoading, favorites, sortConfig, error,
                   storage, phase, effDeps, timers, inflight, gwVars, lsVars>>

\* lines 161-171
NextSortConfigAscendingDefault(cfg, key) ==
    [key |-> key,
     direction |->
        IF cfg.key = key
        THEN (IF cfg.direction = "ascending" THEN "descending" ELSE "ascending")
        ELSE "ascending"]
NextSortConfig(cfg, key) ==
    [key |-> key,
     direction |->
        IF cfg.key = key
        THEN (IF cfg.direction = "ascending" THEN "descending" ELSE "ascending")
        ELSE (IF key \in {"marketCap", "volume24h"} THEN "descending" ELSE "ascending")]

\* the column headers the user clicks
ClickedKeys == {"name", "marketCap"}

requestSort ==
    /\ Idle
    /\ \E key \in ClickedKeys : sortConfig' = NextSortConfig(sortConfig, key)
    /\ last' = Step("sort", NoClosure, "none")
    /\ UNCHANGED <<cryptos, filteredCryptos, isLoading, searchTerm, favorites, error,
                   storage, phase, effDeps, timers, inflight, gwVars, lsVars>>

\* toggleFavorite(crypto.id) from the star of a row on screen, through setValue of
\* useLocalStorage: setItem may throw (quota, storage disabled), which is caught.
toggleFavorite ==
    /\ Idle
    /\ RowsVisible
    /\ \E i \in 1..Len(filteredCryptos), setItemThrows \in BOOLEAN :
          LET newValue == ToggleIn(favorites, filteredCryptos[i].id)
          IN  IF setItemThrows
              THEN /\ UNCHANGED <<storage, favorites>>
                   /\ last' = Step("toggle", NoClosure, "throws")
              ELSE /\ storage' = Stringify(newValue)
                   \* setStoredValue(newValue), then the 'local-storage' listener:
                   \* setStoredValue(readValue())
                   /\ favorites' = readValue(Stringify(newValue), <<>>)
                   /\ last' = Step("toggle", NoClosure, "stored")
    /\ UNCHANGED <<cryptos, filteredCryptos, isLoading, searchTerm, sortConfig, error,
                   phase, effDeps, timers, inflight, gwVars, lsVars>>

(***************************************************************************)
(* The controller specification.                                           *)
(***************************************************************************)
\* what localStorage may hold under the favorites key when the page opens
InitialItems == {NoItem, Stringify(<<IdEth>>)}

Init ==
    /\ storage \in InitialItems
    /\ cryptos = <<>>
    /\ filteredCryptos = <<>>
    /\ isLoading = TRUE
    /\ searchTerm = <<>>
    /\ favorites = readValue(storage, <<>>)
    /\ sortConfig = [key |-> "marketCap", direction |-> "descending"]
    /\ error = NoError
    /\ phase = "rendered"
    /\ effDeps = NoClosure
    /\ timers = <<>>
    /\ inflight = EmptyBag
    /\ last = Step("init", NoClosure, "none")
    /\ gwInput = [kind |-> "none"]
    /\ gwResult = Return(<<>>)
    /\ gwLegacy = Return(<<>>)
    /\ gwResponse = [kind |-> "none"]
    /\ StoreAtRest

Next ==
    \/ Mount
    \/ FlushEffects
    \/ Tick
    \/ Complete
    \/ Unmount
    \/ handleSearchChange
    \/ requestSort
    \/ toggleFavorite

Spec == Init /\ [][Next]_vars

(***************************************************************************)
(* The gateway specification: getCryptoCurrencies applied to every         *)
(* upstream answer of a bounded set.                                       *)
(***************************************************************************)
NoSymbol == RawCoin(Str(IdBtc), Null, Str(NameBtc), Num(50), Num(1), Num(1), Num(1), Num(1),
                    Null)
EmptyName == RawCoin(Str(IdEth), Str(IdEth), Str(<<>>), Num(3), Num(1), Num(1), Num(1),
                     Num(1), Null)
\* the item of the normalization scenario (market_cap counted in units of 10^9)
ScenarioBtc == RawCoin(Str(IdBtc), Str(IdBtc), Str(NameBtc), Null, Undef, Num(900),
                       Undef, Undef, Obj(Arr(<<Num(1), Num(2), Null, Num(4)>>)))
ZeroPrice == RawCoin(Str(IdAda), Str(IdAda), Str(NameAda), Num(0), Num(0), Num(0), Num(0),
                     Num(0), Obj(Arr(<<Null, Num(7)>>)))

\* what an upstream array may hold (null stands for a non-object element)
RawItems == {BtcOld, EthOld, Ada, Anonymous, NoSymbol, EmptyName, ScenarioBtc, ZeroPrice,
             Null}

RECURSIVE SeqsUpTo(_, _)
SeqsUpTo(S, n) ==
    IF n = 0 THEN {<<>>}
    ELSE LET shorter == SeqsUpTo(S, n - 1)
         IN  shorter \cup {Append(q, x) : q \in shorter, x \in S}

GatewayInputs ==
    {Json(items) : items \in SeqsUpTo(RawItems, MaxItems)}
    \cup {[kind |-> "networkError"], [kind |-> "status"], [kind |-> "badJson"],
          [kind |-> "json", json |-> Obj(Null)], [kind |-> "json", json |-> Null]}

\* the upstream failed: no response, a status that is not ok, or a body that
\* does not parse to an array of objects
UpstreamFailed(u) ==
    \/ u.kind \in {"networkError", "status", "badJson"}
    \/ u.kind = "json" /\ u.json.t # "array"
    \/ u.kind = "json" /\ u.json.t = "array" /\ \E c \in Range(u.json.a) : Nullish(c)

CallGateway ==
    /\ \E u \in GatewayInputs :
          /\ gwInput' = u
          /\ gwResult' = getCryptoCurrencies(u)
          /\ gwLegacy' = getCryptoCurrenciesLegacy(u)
          /\ gwResponse' = GET(u)
    /\ UNCHANGED <<ctlVars, lsVars>>

NextGateway == CallGateway

SpecGateway == Init /\ [][NextGateway]_vars

(***************************************************************************)
(* Properties of the controller (specification Spec).                      *)
(***************************************************************************)
\* a fetch completed in this step
Completed == last'.op = "complete"
\* ... and it failed or its response held no records
CompletedWithoutRecords == Completed /\ last'.kind \in {"fail", "empty"}
\* the controller state Ready: data present, not loading, no error
Ready == Len(cryptos) > 0 /\ ~isLoading /\ error = NoError

\* C1: once the authoritative list has held a record it holds one in every
\* later state, whatever the polls answer and whatever the user does.
C1_NeverBlanked == [][Len(cryptos) > 0 => Len(cryptos') > 0]_vars

\* C1 witness: a poll failed or came back empty after data had been shown
C1_Witness ==
    /\ last.op = "complete"
    /\ last.kind \in {"fail", "empty"}
    /\ Len(cryptos) > 0

\* C2: after unmount the asset list, the loading flag and the error never
\* change again (the completion callback of a fetch still in flight is to
\* find the controller inactive and do nothing).
C2_NoChangeAfterUnmount ==
    [][phase = "unmounted" => UNCHANGED <<cryptos, isLoading, error>>]_vars

\* C3: a fetch is started only by the mount and by a tick of the timer, and
\* the timer is armed only by the mount (and cleared only by the unmount):
\* no completion of a fetch leads to another fetch or to a re-armed timer.
C3_FetchOnlyOnMountOrTick ==
    [][/\ (InflightCount' > InflightCount => last'.op \in {"mount", "tick"})
       /\ (timers' # timers => last'.op \in {"mount", "unmount"})]_vars

\* C4: a poll that fails or answers no records while a list exists leaves
\* the list as it was, and with it the stored and the derived view.
C4_FailedPollKeepsList ==
    [][(CompletedWithoutRecords /\ Len(cryptos) > 0) =>
          /\ cryptos' = cryptos
          /\ filteredCryptos' = filteredCryptos
          /\ DerivedView(cryptos', sortConfig', favorites', searchTerm')
                = DerivedView(cryptos, sortConfig, favorites, searchTerm)]_vars

\* C4 witness: a failed poll completed over a list of two records that the
\* table shows in full
C4_Witness ==
    /\ last.op = "complete"
    /\ last.kind = "fail"
    /\ Len(cryptos) = 2
    /\ Len(filteredCryptos) = 2
    /\ phase = "mounted"

\* C5: after a poll that answered at least one record the list is exactly
\* the response's records, in the response's order.
C5_SuccessReplacesList ==
    (last.op = "complete" /\ last.kind = "data") => cryptos = last.data

\* C5 witness: a poll started over a list of two records answered one record
C5_Witness ==
    /\ last.op = "complete"
    /\ last.kind = "data"
    /\ last.closure.len = 2
    /\ Len(last.data) = 1
    /\ cryptos = last.data

\* C6 as stated: a poll failing in Ready takes the controller to a state
\* that differs from Ready.
C6_RefreshFailedIsDistinct ==
    [][(Ready /\ Completed /\ last'.kind = "fail") =>
          <<cryptos', isLoading', error'>> # <<cryptos, isLoading, error>>]_vars

\* C6 amended: a poll failing in Ready keeps the list, leaves loading false
\* and shows no banner; if it was started while the list was non-empty the
\* controller state is left exactly as it was (no RefreshFailed state). A
\* poll that answers records leaves a list, loading false and no banner.
C6_FailureInReadyIsSilent ==
    [][/\ (Ready /\ Completed /\ last'.kind = "fail") =>
             /\ cryptos' = cryptos
             /\ ~isLoading'
             /\ ~BannerVisible'
             /\ (last'.closure.len > 0 => error' = error)
       /\ (Completed /\ last'.kind = "data") =>
             /\ Len(cryptos') > 0
             /\ ~isLoading'
             /\ ~BannerVisible']_vars

\* C6 witness: a poll started over a non-empty list failed and the
\* controller is in Ready
C6_Witness ==
    /\ last.op = "complete"
    /\ last.kind = "fail"
    /\ last.closure.len > 0
    /\ Ready

\* C7: the banner is on screen only while the list is empty, and once the
\* list holds records no step makes the banner visible.
C7_BannerOnlyWithoutData ==
    /\ [](BannerVisible => Len(cryptos) = 0)
    /\ [][Len(cryptos) > 0 => ~BannerVisible']_vars

\* C7 witness: an error message is set and loading is off while the list
\* holds records (a poll failed after the first load), and no banner shows
C7_Witness ==
    /\ last.op = "complete"
    /\ last.kind = "fail"
    /\ error # NoError
    /\ ~isLoading
    /\ Len(cryptos) > 0
    /\ ~BannerVisible

\* C8: the banner, once visible, stays visible until a poll answers records.
C8_BannerStaysUntilSuccess ==
    [][(BannerVisible /\ ~BannerVisible') => (Completed /\ last'.kind = "data")]_vars

\* C9: a poll that fails or answers no records while the list is non-empty
\* leaves the error message unset.
C9_NoErrorWithData ==
    [][(CompletedWithoutRecords /\ Len(cryptos) > 0 /\ error = NoError) =>
          error' = NoError]_vars

(***************************************************************************)
(* Properties of the gateway (specification SpecGateway).                  *)
(***************************************************************************)
\* C10: neither revision of the gateway raises, and on a network error, a
\* status that is not ok or a body that does not parse it returns the
\* empty sequence.
C10_GatewayNeverRaises ==
    /\ ~gwResult.threw
    /\ ~gwLegacy.threw
    /\ UpstreamFailed(gwInput) => (gwResult.value = <<>> /\ gwLegacy.value = <<>>)

\* C10 witness: the upstream answered with a status that is not ok
C10_Witness ==
    /\ gwInput.kind = "status"
    /\ gwResult = Return(<<>>)
    /\ gwLegacy = Return(<<>>)

\* the payload parsed to an array whose elements are all records
ArrayOfRecords(u) ==
    /\ u.kind = "json"
    /\ u.json.t = "array"
    /\ \A c \in Range(u.json.a) : c.t = "object"

\* the k-th smallest index of a set of indices
NthOf(S, k) == CHOOSE j \in S : Cardinality({i \in S : i <= j}) = k

\* v is a string that is not empty
IsText(v) == v.t = "string" /\ Len(v.s) > 0

\* the positions of the raw items that have an id, a symbol and a name
KeptIndices(items) ==
    {i \in 1..Len(items) :
        IsText(items[i].id) /\ IsText(items[i].symbol) /\ IsText(items[i].name)}

\* C12 as stated: the route answers 200 with the array when the upstream
\* fetch succeeds and 500 with a message when the upstream fetch fails.
C12_UpstreamFailureAnswers500 ==
    gwInput.kind # "none" =>
        IF UpstreamFailed(gwInput)
        THEN gwResponse.status = 500 /\ gwResponse.body = "message"
        ELSE gwResponse.status = 200 /\ gwResponse.body = "data"

\* C12 amended: the route answers 200 with the array the gateway returned,
\* which is the empty array when the upstream fetch failed; it answers 500
\* with a message only when the gateway call raised, which no upstream
\* answer causes.
C12_UpstreamFailureAnswersEmptyArray ==
    gwInput.kind # "none" =>
        /\ gwResponse.status = 500 <=> gwResult.threw
        /\ gwResponse.status = 500 => gwResponse.body = "message"
        /\ gwResponse.status = 200
        /\ gwResponse.ok
        /\ gwResponse.body = "data"
        /\ gwResponse.data = gwResult.value
        /\ UpstreamFailed(gwInput) => gwResponse.data = <<>>

\* C12 witness: the upstream fetch was rejected and the route answered 200
\* with the empty array
C12_Witness ==
    /\ gwInput.kind = "networkError"
    /\ gwResponse.status = 200
    /\ gwResponse.data = <<>>

\* the raw field each numeric field of the normalized record is read from
RawFieldOf ==
    [currentPrice |-> "current_price",
     priceChange24h |-> "price_change_percentage_24h",
     marketCap |-> "market_cap",
     volume24h |-> "total_volume",
     circulatingSupply |-> "circulating_supply"]

C14_KeepsItemsWithIdentityInOrder ==
    ArrayOfRecords(gwInput) =>
        LET items == gwInput.json.a
            out == gwResult.value
        IN  /\ Len(out) = Cardinality(KeptIndices(items))
            /\ \A k \in 1..Len(out) :
                  LET raw == items[NthOf(KeptIndices(items), k)]
                  IN  /\ out[k].id = raw.id.s
                      /\ out[k].symbol = raw.symbol.s
                      /\ out[k].name = raw.name.s
                      /\ out[k].currentPrice = NumOrZero(raw.current_price)

\* C14 witness: of two raw items the first has no symbol and is dropped,
\* the second is kept
C14_Witness ==
    /\ gwInput = Json(<<NoSymbol, EthOld>>)
    /\ Len(gwResult.value) = 1
    /\ gwResult.value[1].id = IdEth

\* the price array of a kept raw item, empty when the sparkline or its
\* price array is null or absent
PricesOf(raw) ==
    IF raw.sparkline_in_7d.t # "object" THEN <<>>
    ELSE IF raw.sparkline_in_7d.price.t # "array" THEN <<>>
    ELSE raw.sparkline_in_7d.price.a

NumericIndices(prices) == {i \in 1..Len(prices) : prices[i].t = "number"}

\* the length of the longest prefix of prices that holds numbers only
NumericPrefixLen(prices) ==
    Cardinality({i \in 1..Len(prices) : \A j \in 1..i : prices[j].t = "number"})

\* C15 as stated: the normalized sparkline is the numeric-only prefix of
\* the upstream price array, empty when the sparkline or its price array is
\* absent or null.
C15_SparklineIsNumericPrefix ==
    ArrayOfRecords(gwInput) =>
        LET items == gwInput.json.a
            out == gwResult.value
        IN  \A k \in 1..Len(out) :
               LET prices == PricesOf(items[NthOf(KeptIndices(items), k)])
               IN  /\ Len(out[k].sparkline) = NumericPrefixLen(prices)
                   /\ \A m \in 1..Len(out[k].sparkline) :
                         out[k].sparkline[m] = prices[m].n

\* C15 amended: the normalized sparkline holds every numeric element of the
\* upstream price array, in upstream order, wherever the non-numeric
\* elements are; it is empty when the sparkline or its price array is
\* absent or null.
C15_SparklineIsNumericSubsequence ==
    ArrayOfRecords(gwInput) =>
        LET items == gwInput.json.a
            out == gwResult.value
        IN  \A k \in 1..Len(out) :
               LET prices == PricesOf(items[NthOf(KeptIndices(items), k)])
               IN  /\ Len(out[k].sparkline) = Cardinality(NumericIndices(prices))
                   /\ \A m \in 1..Len(out[k].sparkline) :
                         out[k].sparkline[m] = prices[NthOf(NumericIndices(prices), m)].n

\* C15 witness: a price array whose first element is null, and a record
\* without a sparkline, normalized in one call
C15_Witness ==
    /\ gwInput = Json(<<ZeroPrice, EthOld>>)
    /\ Len(gwResult.value) = 2
    /\ gwResult.value[1].sparkline = <<7>>
    /\ gwResult.value[2].sparkline = <<>>

\* C16: the item btc/btc/Bitcoin with a null price, market cap 900 (in
\* units of 10^9) and sparkline prices [1, 2, null, 4] is normalized to a
\* record with currentPrice 0, that market cap and sparkline [1, 2, 4].
C16_ScenarioBtcNormalized ==
    gwInput = Json(<<ScenarioBtc>>) =>
        /\ Len(gwResult.value) = 1
        /\ gwResult.value[1].id = IdBtc
        /\ gwResult.value[1].symbol = IdBtc
        /\ gwResult.value[1].name = NameBtc
        /\ gwResult.value[1].currentPrice = 0
        /\ gwResult.value[1].marketCap = 900
        /\ gwResult.value[1].sparkline = <<1, 2, 4>>

\* C16 witness: the scenario item was handed to the gateway and came back
\* with three sparkline elements
C16_Witness ==
    /\ gwInput = Json(<<ScenarioBtc>>)
    /\ Len(gwResult.value) = 1
    /\ Len(gwResult.value[1].sparkline) = 3
    /\ gwResponse.data = gwResult.value

(***************************************************************************)
(* The view specification: the derivation of the table rows (sortedCryptos *)
(* and the search filter) applied to every list, sort configuration,       *)
(* favorites array and search term of a bounded set.                       *)
(***************************************************************************)
\* records of one authoritative list
MaxViewLen == 3

\* "wbt", "aave"
IdWbt == <<119, 98, 116>>
IdAave == <<97, 97, 118, 101>>
\* a second asset named "Bitcoin" (symbol "WBT") and one named "aave"
Wbt == RawCoin(Str(IdWbt), Str(<<87, 66, 84>>), Str(NameBtc), Num(50), Num(1), Num(900),
               Num(5), Null, Null)
Aave == RawCoin(Str(IdAave), Str(IdAave), Str(IdAave), Num(3), Num(0), Null, Num(7),
                Num(35), Null)

\* the normalized records a list is drawn from; every sort key has ties
ViewRecords == {MapCoin(BtcOld), MapCoin(EthOld), MapCoin(Ada), MapCoin(Wbt), MapCoin(Aave)}

\* lists without a repeated record (ids are unique in a list)
ViewLists == {l \in SeqsUpTo(ViewRecords, MaxViewLen) : Cardinality(Range(l)) = Len(l)}

ViewSortConfigs ==
    {[key |-> k, direction |-> d] : k \in SortKeys \cup {NoKey},
                                    d \in {"ascending", "descending"}}

ViewFavorites == {<<>>, <<IdEth>>, <<IdWbt, IdAda>>, <<IdBtc, IdEth, IdAave>>}

\* "", "ET", "ad", "bit"
ViewTerms == {<<>>, <<69, 84>>, <<97, 100>>, <<98, 105, 116>>}

InitView ==
    /\ cryptos \in ViewLists
    /\ sortConfig \in ViewSortConfigs
    /\ favorites \in ViewFavorites
    /\ searchTerm \in ViewTerms
    /\ filteredCryptos = <<>>
    /\ isLoading = FALSE
    /\ error = NoError
    /\ storage = Stringify(favorites)
    /\ phase = "mounted"
    /\ effDeps = CurDeps
    /\ timers = <<>>
    /\ inflight = EmptyBag
    /\ last = Step("init", NoClosure, "none")
    /\ gwInput = [kind |-> "none"]
    /\ gwResult = Return(<<>>)
    /\ gwLegacy = Return(<<>>)
    /\ gwResponse = [kind |-> "none"]
    /\ StoreAtRest

\* sortedCryptos is computed and the filter effect stores its result
DeriveView ==
    /\ last.op = "init"
    /\ filteredCryptos' = DerivedView(cryptos, sortConfig, favorites, searchTerm)
    /\ last' = Step("derive", NoClosure, "none")
    /\ UNCHANGED <<cryptos, isLoading, searchTerm, favorites, sortConfig, error, storage,
                   phase, effDeps, timers, inflight, gwVars, lsVars>>

\* the columns whose header calls requestSort
HeaderKeys == {"name", "currentPrice", "priceChange24h", "marketCap", "volume24h",
               "circulatingSupply"}

\* a click on a column header: requestSort(key), and the render that follows
\* it, in which the filter effect stores the rows in their new order
ClickHeader ==
    /\ last.op = "init"
    /\ \E key \in HeaderKeys :
          /\ sortConfig' = NextSortConfig(sortConfig, key)
          /\ last' = Step("sort", NoClosure, key)
    /\ filteredCryptos' = DerivedView(cryptos, sortConfig', favorites, searchTerm)
    /\ UNCHANGED <<cryptos, isLoading, searchTerm, favorites, error, storage,
                   phase, effDeps, timers, inflight, gwVars, lsVars>>

NextView ==
    \/ DeriveView
    \/ ClickHeader

SpecView == InitView /\ [][NextView]_vars

(***************************************************************************)
(* Properties of the view derivation (specification SpecView).             *)
(***************************************************************************)
Derived == last.op = "derive"

IsFavorite(crypto) == \E i \in 1..Len(favorites) : favorites[i] = crypto.id

\* the position of a record in the authoritative list
IndexInList(crypto) == CHOOSE p \in 1..Len(cryptos) : cryptos[p] = crypto

\* pairs of rows of the same group, the first above the second
GroupPairs ==
    {<<i, j>> \in (1..Len(filteredCryptos)) \X (1..Len(filteredCryptos)) :
        i < j /\ (IsFavorite(filteredCryptos[i]) <=> IsFavorite(filteredCryptos[j]))}

\* C17: in the derived view every favorite record stands before every
\* record that is not a favorite.
C17_FavoritesFirst ==
    Derived =>
        \A i, j \in 1..Len(filteredCryptos) :
            (IsFavorite(filteredCryptos[i]) /\ ~IsFavorite(filteredCryptos[j])) => i < j

\* C17 witness: sorted by market cap descending, a favorite with the
\* smaller market cap stands above a record that is not a favorite
C17_Witness ==
    /\ Derived
    /\ sortConfig = [key |-> "marketCap", direction |-> "descending"]
    /\ Len(filteredCryptos) >= 2
    /\ IsFavorite(filteredCryptos[1])
    /\ ~IsFavorite(filteredCryptos[2])
    /\ filteredCryptos[1].marketCap < filteredCryptos[2].marketCap

\* C18: within the favorites and within the other rows of the derived view
\* the records are in the order of the sort key and direction (numbers by
\* value, names by localeCompare); without a sort key each group keeps the
\* order of the authoritative list.
C18_GroupsOrderedBySortKey ==
    Derived =>
        \A p \in GroupPairs :
            LET a == filteredCryptos[p[1]]
                b == filteredCryptos[p[2]]
                k == sortConfig.key
                up == sortConfig.direction = "ascending"
            IN  /\ k \in NumericKeys => (IF up THEN a[k] <= b[k] ELSE a[k] >= b[k])
                /\ k \in StringKeys =>
                      (IF up THEN LocaleCompare(a[k], b[k]) <= 0
                       ELSE LocaleCompare(a[k], b[k]) >= 0)
                /\ k = NoKey => IndexInList(a) < IndexInList(b)

\* C18 witness: two rows of one group, sorted by name descending, that the
\* authoritative list holds in the opposite order
C18_Witness ==
    /\ Derived
    /\ sortConfig = [key |-> "name", direction |-> "descending"]
    /\ \E p \in GroupPairs :
          /\ LocaleCompare(filteredCryptos[p[1]].name, filteredCryptos[p[2]].name) > 0
          /\ IndexInList(filteredCryptos[p[1]]) > IndexInList(filteredCryptos[p[2]])

\* C19: two records of the same group with equal values of the sort key
\* stand in the derived view in the order of the authoritative list, in
\* either direction.
C19_SortIsStable ==
    Derived =>
        \A p \in GroupPairs :
            LET a == filteredCryptos[p[1]]
                b == filteredCryptos[p[2]]
            IN  (sortConfig.key \in SortKeys /\ a[sortConfig.key] = b[sortConfig.key])
                    => IndexInList(a) < IndexInList(b)

\* C19 witness: sorted descending, two rows of one group with equal values
\* of the sort key, and a third record between them in the authoritative list
C19_Witness ==
    /\ Derived
    /\ sortConfig.direction = "descending"
    /\ sortConfig.key \in SortKeys
    /\ \E p \in GroupPairs :
          /\ filteredCryptos[p[1]][sortConfig.key] = filteredCryptos[p[2]][sortConfig.key]
          /\ IndexInList(filteredCryptos[p[2]]) = IndexInList(filteredCryptos[p[1]]) + 2

\* the letters a and b are equal up to case
SameLetter(a, b) ==
    \/ a = b
    \/ a \in 65..90 /\ b = a + 32
    \/ b \in 65..90 /\ a = b + 32

\* sub occurs in s, case ignored
OccursIn(sub, s) ==
    \E off \in 0..(Len(s) - Len(sub)) :
        \A i \in 1..Len(sub) : SameLetter(s[off + i], sub[i])

\* C20: the derived view is the sorted, favorites-first list restricted, in
\* order, to the records whose name or symbol holds the search term with
\* case ignored; with the empty term it is that whole list.
C20_FilterIsSubsequence ==
    Derived =>
        LET sorted == sortedCryptos(cryptos, sortConfig, favorites)
            hits == {i \in 1..Len(sorted) :
                        \/ OccursIn(searchTerm, sorted[i].name)
                        \/ OccursIn(searchTerm, sorted[i].symbol)}
        IN  /\ Len(filteredCryptos) = Cardinality(hits)
            /\ \A k \in 1..Len(filteredCryptos) : filteredCryptos[k] = sorted[NthOf(hits, k)]
            /\ searchTerm = <<>> => filteredCryptos = sorted

\* C20 witness: the term "ET" in upper case keeps the one record named
\* "ether" out of a list of three
C20_Witness ==
    /\ Derived
    /\ searchTerm = <<69, 84>>
    /\ Len(cryptos) = 3
    /\ Len(filteredCryptos) = 1
    /\ filteredCryptos[1].name = NameEth

(***************************************************************************)
(* Further properties of the controller (specification Spec).              *)
(***************************************************************************)
Toggled == last'.op = "toggle"

IsMember(id, favs) == \E i \in 1..Len(favs) : favs[i] = id

\* C23: a favorite toggle leaves the sort configuration, the search term
\* and the authoritative list as they are, and changes the favorites in the
\* membership of the toggled id alone: that membership is flipped when the
\* new array was stored, and nothing changes when storing it failed.
C23_ToggleChangesOnlyFavorites ==
    [][Toggled =>
          /\ sortConfig' = sortConfig
          /\ searchTerm' = searchTerm
          /\ cryptos' = cryptos
          /\ \E i \in 1..Len(filteredCryptos) :
                LET id == filteredCryptos[i].id
                IN  /\ \A other \in (Range(favorites) \cup Range(favorites')) \ {id} :
                          IsMember(other, favorites') <=> IsMember(other, favorites)
                    /\ last'.kind = "stored" =>
                          (IsMember(id, favorites') <=> ~IsMember(id, favorites))
                    /\ last'.kind = "throws" => favorites' = favorites]_vars

\* C23 witness: with a search term typed and two favorites, the one favorite
\* that is not on screen stays when the other is toggled off
C23_Witness ==
    /\ last.op = "toggle"
    /\ last.kind = "stored"
    /\ searchTerm # <<>>
    /\ Len(favorites) = 1
    /\ \A i \in 1..Len(filteredCryptos) : ~IsMember(filteredCryptos[i].id, favorites)
    /\ Len(filteredCryptos) > 0

\* C27: the list changes only at the completion of a fetch that answered
\* records, and then it becomes those records whatever closure the fetch was
\* started with; so after overlapping polls the list is the non-empty
\* response that completed last.
C27_AppliedInCompletionOrder ==
    [][/\ (Completed /\ last'.kind = "data") => cryptos' = last'.data
       /\ ~(Completed /\ last'.kind = "data") => cryptos' = cryptos]_vars

\* C27 witness: a fetch started over the empty list completes with records
\* after a fetch that was started later (by the effect that re-ran over a
\* list of two records) has completed, and its records are the list
C27_Witness ==
    /\ last.op = "complete"
    /\ last.kind = "data"
    /\ last.closure = Closure(0, TRUE)
    /\ effDeps.len = 2
    /\ InflightCount = 0
    /\ Len(last.data) = 1
    /\ cryptos = last.data

\* C28: whenever the table is on screen, the rows handed to it are the
\* derivation of the current list, sort configuration, favorites and search
\* term.
C28_RowsNeverLag ==
    phase = "mounted" =>
        filteredCryptos = DerivedView(cryptos, sortConfig, favorites, searchTerm)

\* C30: one interval is armed while the controller is mounted and none
\* before the mount or after the unmount.
C30_OneTimerWhileMounted ==
    /\ phase = "mounted" => Len(timers) = 1
    /\ phase # "mounted" => Len(timers) = 0

\* C30 witness: the polling effect re-ran after a completion and one
\* interval, that of the new fetchData, is armed
C30_Witness ==
    /\ last.op = "effects"
    /\ last.kind = "refetch"
    /\ effDeps.len > 0
    /\ timers = <<effDeps>>

(***************************************************************************)
(* The controller with its scheduling: React runs the effects of a render, *)
(* and a fetch in flight settles (its promise resolves or rejects).        *)
(***************************************************************************)
\* a fetch is in flight and no effect of the last render is still to run:
\* the states in which Complete can take a step
CompleteEnabled == phase # "rendered" /\ ~EffectsPending /\ InflightCount > 0

\* Weak fairness of Mount and of FlushEffects (whose steps are possible
\* exactly in the states of EffectsPending), strong fairness of Complete
\* (whose steps are possible exactly in the states of CompleteEnabled).
SpecLive ==
    /\ Spec
    /\ WF_vars(Mount)
    /\ (<>[]EffectsPending => []<><<FlushEffects>>_vars)
    /\ ([]<>CompleteEnabled => []<><<Complete>>_vars)

\* C29: every completion of a fetch, with records, without records or
\* failed, turns the loading flag off; the flag is on only while a fetch is
\* in flight (or the first render still waits for its effects); and when
\* the flag is on it is off at some later time.
C29_LoadingEndsWithTheFetch ==
    /\ [][Completed => ~isLoading']_vars
    /\ [](isLoading => (InflightCount > 0 \/ phase = "rendered"))
    /\ (isLoading ~> ~isLoading)

\* C29 witness: the first fetch failed, the list is empty and the loading
\* flag is off
C29_Witness ==
    /\ last.op = "complete"
    /\ last.kind = "fail"
    /\ Len(cryptos) = 0
    /\ ~isLoading

(***************************************************************************)
(* Column headers (specification SpecView).                                *)
(***************************************************************************)
\* C21: a click on the header of column k makes k the sort key; the
\* direction is the opposite of the current one when k was the key already,
\* and otherwise descending for marketCap and volume24h and ascending for
\* any other column.  From {marketCap, descending} a click on Market Cap
\* gives {marketCap, ascending} and a click on Name gives {name, ascending}.
C21_HeaderClickSetsSort ==
    [][last'.op = "sort" =>
          LET key == last'.kind
              from == [key |-> "marketCap", direction |-> "descending"]
          IN  /\ sortConfig'.key = key
              /\ sortConfig.key = key =>
                    /\ sortConfig'.direction # sortConfig.direction
                    /\ sortConfig'.direction \in {"ascending", "descending"}
              /\ (sortConfig.key # key /\ key \in {"marketCap", "volume24h"}) =>
                    sortConfig'.direction = "descending"
              /\ (sortConfig.key # key /\ key \notin {"marketCap", "volume24h"}) =>
                    sortConfig'.direction = "ascending"
              /\ (sortConfig = from /\ key = "marketCap") =>
                    sortConfig' = [key |-> "marketCap", direction |-> "ascending"]
              /\ (sortConfig = from /\ key = "name") =>
                    sortConfig' = [key |-> "name", direction |-> "ascending"]]_vars

\* C21 witness: Market Cap was clicked while it was the key, and two rows are
\* on screen by ascending market cap
C21_Witness ==
    /\ last.op = "sort"
    /\ last.kind = "marketCap"
    /\ sortConfig = [key |-> "marketCap", direction |-> "ascending"]
    /\ Len(filteredCryptos) >= 2
    /\ filteredCryptos[1].marketCap < filteredCryptos[2].marketCap

(***************************************************************************)
(* The store specification: the consumers of useLocalStorage toggle ids    *)
(* and re-read their keys, over every mode and initial content of          *)
(* localStorage of a bounded set.                                          *)
(***************************************************************************)
\* ids localStorage has room for
MaxQuota == 2

StoreModes ==
    {[available |-> FALSE, cap |-> 0]}
    \cup {[available |-> TRUE, cap |-> n] : n \in 0..MaxQuota}

\* what a key may hold when the page opens
InitialStoreItems ==
    {NoItem, BadItem, Stringify(<<>>), Stringify(<<IdEth>>), Stringify(<<IdEth, IdEth>>)}

\* the ids the consumers toggle
ToggleIds == {IdBtc, IdEth}

InitStore ==
    /\ cryptos = <<>>
    /\ filteredCryptos = <<>>
    /\ isLoading = TRUE
    /\ searchTerm = <<>>
    /\ favorites = <<>>
    /\ sortConfig = [key |-> "marketCap", direction |-> "descending"]
    /\ error = NoError
    /\ storage = NoItem
    /\ phase = "rendered"
    /\ effDeps = NoClosure
    /\ timers = <<>>
    /\ inflight = EmptyBag
    /\ last = Step("init", NoClosure, "none")
    /\ gwInput = [kind |-> "none"]
    /\ gwResult = Return(<<>>)
    /\ gwLegacy = Return(<<>>)
    /\ gwResponse = [kind |-> "none"]
    /\ lsMode \in StoreModes
    /\ lsItems \in [StoreKeys -> InitialStoreItems]
    /\ lsMode.available => TotalSize(lsItems) <= lsMode.cap
    \* useState(readValue) and the mount effect of every consumer
    /\ lsValue = [c \in Consumers |->
                     readValueIn(lsMode, lsItems[KeyOf(c)], InitialValueOf(c)).value]
    /\ lsLast = NoStoreStep
    /\ lsPrev = NoStoreStep
    /\ lsClosure = lsValue

\* a consumer calls its setter with the updater of toggleFavorite(id); the
\* render that follows the event gives every consumer its new closure
StoreToggle ==
    /\ \E c \in Consumers, id \in ToggleIds :
          LET r == setValue(lsMode, lsItems, lsValue, lsClosure[c], c, id)
          IN  /\ lsItems' = r.items
              /\ lsValue' = r.values
              /\ lsClosure' = r.values
              /\ lsLast' = [op |-> "toggle", c |-> c, id |-> id, threw |-> r.threw,
                            stored |-> r.stored, notified |-> r.notified,
                            before |-> lsValue[c]]
    /\ lsPrev' = lsLast
    /\ UNCHANGED <<lsMode, ctlVars, gwVars>>

\* setStoredValue(readValue()) of a consumer (its mount effect)
StoreRead ==
    /\ \E c \in Consumers :
          LET r == readValueIn(lsMode, lsItems[KeyOf(c)], InitialValueOf(c))
          IN  /\ lsValue' = [lsValue EXCEPT ![c] = r.value]
              /\ lsLast' = [op |-> "read", c |-> c, id |-> <<>>, threw |-> r.threw,
                            stored |-> FALSE, notified |-> {}, before |-> lsValue[c]]
    /\ lsClosure' = lsValue'
    /\ lsPrev' = lsLast
    /\ UNCHANGED <<lsMode, lsItems, ctlVars, gwVars>>

NextStore ==
    \/ StoreToggle
    \/ StoreRead

SpecStore == InitStore /\ [][NextStore]_vars

(***************************************************************************)
(* Properties of the favorites store (specification SpecStore).            *)
(***************************************************************************)
\* the last two steps were toggles of the same id by the same consumer
ToggledTwice ==
    /\ lsLast.op = "toggle"
    /\ lsPrev.op = "toggle"
    /\ lsLast.c = lsPrev.c
    /\ lsLast.id = lsPrev.id

\* C22: after a consumer toggled the same id twice in a row, its favorites
\* hold the ids they held before the first of the two toggles (as a set),
\* whether the id was a member then or not.
C22_ToggleTwiceRestores ==
    ToggledTwice => Range(lsValue[lsLast.c]) = Range(lsPrev.before)

\* C22 witness: with localStorage full, a favorite was toggled off and on
\* again; the array has another order but the same ids
C22_Witness ==
    /\ ToggledTwice
    /\ lsPrev.stored
    /\ lsLast.stored
    /\ IsMember(lsLast.id, lsPrev.before)
    /\ TotalSize(lsItems) = lsMode.cap
    /\ lsValue[lsLast.c] # lsPrev.before
    /\ Len(lsValue[lsLast.c]) = 2

\* C24: after each toggle of the table's favorites (consumer 1) a read of
\* localStorage gives the favorites in memory, and the stored item is their
\* JSON text when the write went through; in no step do the favorites in
\* memory change without the stored item changing.
C24_FavoritesPersisted ==
    [][/\ (lsLast'.op = "toggle" /\ lsLast'.c = 1) =>
              /\ readValueIn(lsMode', lsItems'[FavoritesKey], InitialValueOf(1)).value
                     = lsValue'[1]
              /\ lsLast'.stored => lsItems'[FavoritesKey] = Stringify(lsValue'[1])
       /\ lsValue'[1] # lsValue[1] => lsItems'[FavoritesKey] # lsItems[FavoritesKey]]_vars

\* C24 witness: the table stored a new favorite
C24_Witness ==
    /\ lsLast.op = "toggle"
    /\ lsLast.c = 1
    /\ lsLast.stored
    /\ lsValue[1] # lsLast.before
    /\ Len(lsValue[1]) = 2
    /\ lsItems[FavoritesKey] = Stringify(lsValue[1])

\* C25: no read and no write of the hook raises; a read gives the initial
\* value when localStorage is not available or the item is not JSON; a write
\* that failed leaves localStorage and every consumer's value as they were
\* and notifies no consumer.
C25_StoreAdapterNeverRaises ==
    [][/\ ~lsLast'.threw
       /\ (/\ lsLast'.op = "read"
           /\ (~lsMode.available \/ lsItems[KeyOf(lsLast'.c)] = BadItem)) =>
              lsValue'[lsLast'.c] = InitialValueOf(lsLast'.c)
       /\ (lsLast'.op = "toggle" /\ ~lsLast'.stored) =>
              /\ lsItems' = lsItems
              /\ lsValue' = lsValue
              /\ lsLast'.notified = {}]_vars

\* C25 witness: with localStorage not available, a read and then a toggle
\* went by without a raise
C25_Witness ==
    /\ ~lsMode.available
    /\ lsPrev.op = "read"
    /\ lsLast.op = "toggle"
    /\ ~lsLast.stored
    /\ ~lsLast.threw

\* C26: after a write that went through, every other consumer of the same key
\* was notified and holds the value written, which is the stored one; a
\* consumer of another key holds the value it held before.
C26_SameKeyConsumersNotified ==
    [][(lsLast'.op = "toggle" /\ lsLast'.stored) =>
          \A d \in Consumers \ {lsLast'.c} :
             IF KeyOf(d) = KeyOf(lsLast'.c)
             THEN /\ d \in lsLast'.notified
                  /\ lsValue'[d] = lsValue'[lsLast'.c]
                  /\ lsValue'[d] = ToggleIn(lsLast'.before, lsLast'.id)
                  /\ lsItems'[KeyOf(d)] = Stringify(lsValue'[d])
             ELSE lsValue'[d] = lsValue[d]]_vars

\* C26 witness: the second consumer of 'favorites' stored a new favorite and
\* the table holds it, while the consumer of the other key keeps its own
C26_Witness ==
    /\ lsLast.op = "toggle"
    /\ lsLast.c = 2
    /\ lsLast.stored
    /\ lsValue[1] = lsValue[2]
    /\ lsValue[1] # lsLast.before
    /\ lsValue[3] # <<>>
    /\ lsValue[3] # lsValue[1]

(***************************************************************************)
(* The call specification: setValue is called with the closure of the      *)
(* consumer's last render, and the render that gives the consumers their   *)
(* new closures is a step of its own, so that calls can follow each other  *)
(* before it.                                                              *)
(***************************************************************************)
\* toggleFavorite(id): setValue of the last render is called; the state
\* updates it makes are queued for the next render
CallSetValue ==
    /\ \E c \in Consumers, id \in ToggleIds :
          LET r == setValue(lsMode, lsItems, lsValue, lsClosure[c], c, id)
          IN  /\ lsItems' = r.items
              /\ lsValue' = r.values
              /\ lsLast' = [op |-> "toggle", c |-> c, id |-> id, threw |-> r.threw,
                            stored |-> r.stored, notified |-> r.notified,
                            before |-> lsValue[c]]
    /\ lsPrev' = lsLast
    /\ UNCHANGED <<lsMode, lsClosure, ctlVars, gwVars>>

\* the consumers render with the queued state: useCallback makes a new
\* setValue, since storedValue is one of its dependencies
RenderConsumers ==
    /\ lsClosure # lsValue
    /\ lsClosure' = lsValue
    /\ UNCHANGED <<lsMode, lsItems, lsValue, lsLast, lsPrev, ctlVars, gwVars>>

NextCalls ==
    \/ CallSetValue
    \/ RenderConsumers

SpecCalls == InitStore /\ [][NextCalls]_vars

\* the ids that are in exactly one of the two arrays
SymDiff(a, b) == (Range(a) \ Range(b)) \cup (Range(b) \ Range(a))

\* C31: after a consumer toggled two distinct ids a and b, one call after
\* the other with or without a render between them, and both writes went
\* through, its favorites in memory and the stored favorites differ from
\* the favorites before the first call in exactly a and b.
C31_NoToggleLost ==
    (/\ lsLast.op = "toggle"
     /\ lsPrev.op = "toggle"
     /\ lsLast.c = lsPrev.c
     /\ lsLast.id # lsPrev.id
     /\ lsLast.stored
     /\ lsPrev.stored) =>
        LET c == lsLast.c
            inStore == readValueIn(lsMode, lsItems[KeyOf(c)], InitialValueOf(c)).value
        IN  /\ SymDiff(lsPrev.before, lsValue[c]) = {lsPrev.id, lsLast.id}
            /\ SymDiff(lsPrev.before, inStore) = {lsPrev.id, lsLast.id}
====
